---- MODULE Spec2Model ----
(***************************************************************************)
(* The LED group configuration loader of manager/json-parser.hpp:          *)
(* getSystemLedMap -> loadJsonConfig -> readJson, loadJsonConfigV1 ->       *)
(* getAction, validatePriority.                                             *)
(*                                                                         *)
(* A JSON object is a function from its keys to their values; an absent    *)
(* key is absent from the DOMAIN.  The parsed tree is immutable and the    *)
(* two loops of loadJsonConfigV1 read it once, front to back: json holds   *)
(* the part of the document read so far, and each loop step draws the      *)
(* next entry or member of the document.                                   *)
(***************************************************************************)
EXTENDS Integers, Sequences, FiniteSets, TLC

VARIABLES pc, config, json, ledMap, priorityMap, objpath, ledActions,
          ledAction, returned, error

vars == <<pc, config, json, ledMap, priorityMap, objpath, ledActions,
          ledAction, returned, error>>

(***************************************************************************)
(* Bounds of the model.                                                    *)
(***************************************************************************)
MaxGroups == 2          \* group entries of one document
MaxMembers == 3         \* member entries of one document, all groups together
MaxFieldMembers == 1    \* the same, in the specification that varies every field

(***************************************************************************)
(* Program constants.                                                      *)
(***************************************************************************)
OBJPATH == "/xyz/openbmc_project/led/groups"
DefaultDutyOn == 50
DefaultPeriod == 0
DefaultVersion == 1
SupportedVersion == 1
Uint8Range == 256
Uint16Range == 65536
IntMax == 2147483647

On == "Action::On"
Blink == "Action::Blink"
AssertFailed == "assertion failed"

IncorrectFile == "Incorrect File Path or empty file"
ParseFailed == "Failed to parse config file"
PriorityMismatch == "Priority of at least one LED is not same across groups"
UnsupportedVersion == "Unsupported version"
NoConfigFound == "getJsonConfig failed"

NoError == [what |-> "none"]
EmptyGroupMap == [p \in {} |-> {}]
EmptyPriorityMap == [n \in {} |-> On]
EmptyJson == [k \in {} |-> 0]

(***************************************************************************)
(* A JSON integer n (64 bits in the parsed tree) is held as hi and lo with *)
(* n = hi * 2^31 + lo and 0 <= lo < 2^31.  toInt is the conversion to int  *)
(* that value(key, <int default>) makes: the low 32 bits, two's complement.*)
(* 2^31 is a multiple of 256 and of 65536, so n mod 256 = lo mod 256 and   *)
(* n mod 65536 = lo mod 65536.                                             *)
(***************************************************************************)
Int64(hi, lo) == [hi |-> hi, lo |-> lo]
Small(n) == Int64(0, n)
toInt(n) == IF n.hi % 2 = 0 THEN n.lo ELSE n.lo - IntMax - 1

(***************************************************************************)
(* Inputs.                                                                 *)
(***************************************************************************)
Opt(S) == {<<>>} \cup {<<v>> : v \in S}
Field(k, o) == IF o = <<>> THEN EmptyJson ELSE (k :> o[1])

MemberObj(n, a, d, p, r) ==
    Field("Name", n) @@ Field("Action", a) @@ Field("DutyOn", d)
        @@ Field("Period", p) @@ Field("Priority", r)

\* Members of the documents that vary the structure: timing fields omitted.
Members ==
    {MemberObj(n, a, <<>>, <<>>, r) :
        n \in Opt({"led0"}), a \in Opt({"On"}), r \in Opt({"On", "Blink"})}

\* Members of the documents that vary every field of one member.
FieldMembers ==
    {MemberObj(n, a, d, p, r) :
        n \in {<<"led0">>}, a \in Opt({"On", "Blink", "", "blink"}),
        d \in Opt({Small(100), Small(300)}),
        p \in Opt({Small(1000), Small(70000)}),
        r \in Opt({"On", "Blink", "Off"})}

Groups == Opt({"power"})
FieldGroups == {<<"power">>}
Versions == Opt({Small(1), Small(2)})
\* 1, 2, 0 and 2^32 + 1
FieldVersions == Opt({Small(1), Small(2), Small(0), Int64(2, 1)})
Configs == {"", "/usr/share/phosphor-led-manager/led-group-config.json"}
FileStates == {"missing", "empty", "malformed", "parsed"}

(***************************************************************************)
(* nlohmann::json::value(key, default)                                     *)
(***************************************************************************)
value(obj, key, default) == IF key \in DOMAIN obj THEN obj[key] ELSE default

\* value(key, default) with an int default: the number is converted to int.
valueInt(obj, key, default) ==
    IF key \in DOMAIN obj THEN toInt(obj[key]) ELSE default

\* uint8_t dutyOn = <int>, uint16_t period = <int>: the value modulo 2^width.
\* Faulty variant: the value saturates at the field's maximum.
ToUint8Saturate(v) == IF v >= Uint8Range THEN Uint8Range - 1 ELSE v

ToUint8(v) == v % Uint8Range
ToUint16(v) == v % Uint16Range

(***************************************************************************)
(* getAction: the assertion, then the decoding.                            *)
(***************************************************************************)
\* Faulty variant: the assertion is gone, every other string decodes as On.
getActionNoAssert(action) == IF action = "Blink" THEN Blink ELSE On

getAction(action) ==
    IF ~(action = "On" \/ action = "Blink")
    THEN AssertFailed
    ELSE IF action = "Blink" THEN Blink ELSE On

(***************************************************************************)
(* validatePriority: the map after the call and whether it threw.          *)
(***************************************************************************)
\* Faulty variant: a differing priority replaces the recorded one (last write wins).
validatePriorityLastWins(name, priority, pmap) ==
    [threw |-> FALSE,
     priorityMap |-> (name :> priority) @@ pmap,
     error |-> NoError]

\* Faulty variant: a differing priority is recorded before the failure is raised.
validatePriorityOverwrite(name, priority, pmap) ==
    IF name \in DOMAIN pmap /\ pmap[name] # priority
    THEN [threw |-> TRUE, priorityMap |-> (name :> priority) @@ pmap,
          error |-> [what |-> PriorityMismatch, NAME |-> name,
                     OLD_PRIO |-> pmap[name], NEW_PRIO |-> priority]]
    ELSE [threw |-> FALSE, priorityMap |-> pmap @@ (name :> priority),
          error |-> NoError]

validatePriority(name, priority, pmap) ==
    IF name \notin DOMAIN pmap
    THEN [threw |-> FALSE, priorityMap |-> pmap @@ (name :> priority),
          error |-> NoError]
    ELSE IF pmap[name] # priority
         THEN [threw |-> TRUE, priorityMap |-> pmap,
               error |-> [what |-> PriorityMismatch, NAME |-> name,
                          OLD_PRIO |-> pmap[name], NEW_PRIO |-> priority]]
         ELSE [threw |-> FALSE, priorityMap |-> pmap, error |-> NoError]

(***************************************************************************)
(* ActionSet (std::set<LedAction>) and GroupMap (std::unordered_map).      *)
(***************************************************************************)
LedAction(name, action, dutyOn, period, priority) ==
    [name |-> name, action |-> action, dutyOn |-> dutyOn, period |-> period,
     priority |-> priority]

\* Two records are the same element of an ActionSet when they name one LED.
sameLed(a, b) == a.name = b.name

\* std::set::emplace: no insertion when an equivalent element is present.
emplaceAction(set, elem) ==
    IF \E a \in set : sameLed(a, elem) THEN set ELSE set \cup {elem}

\* Faulty variant: insert_or_assign, a present key is overwritten.
emplaceGroupAssign(map, path, set) == (path :> set) @@ map

\* std::unordered_map::emplace: no insertion when the key is present.
emplaceGroup(map, path, set) ==
    IF path \in DOMAIN map THEN map ELSE map @@ (path :> set)

\* fs::path tmpPath(OBJPATH); tmpPath /= group (a relative segment)
groupPath(entry) == OBJPATH \o "/" \o value(entry, "group", "")

(***************************************************************************)
(* The body of the member loop of loadJsonConfigV1.                        *)
(***************************************************************************)
\* Faulty variant: an omitted Priority defaults to the member's own Action.
memberStepPriorityFromAction(member, set, pmap) ==
    LET name == value(member, "Name", "")
        action == getAction(value(member, "Action", ""))
        dutyOn == ToUint8(valueInt(member, "DutyOn", DefaultDutyOn))
        period == ToUint16(valueInt(member, "Period", DefaultPeriod))
        priority == getAction(value(member, "Priority",
                                    value(member, "Action", "")))
        checked == validatePriority(name, priority, pmap)
        built == LedAction(name, action, dutyOn, period, priority)
    IN  IF action = AssertFailed \/ priority = AssertFailed
        THEN [status |-> "aborted", ledActions |-> set, priorityMap |-> pmap,
              ledAction |-> <<>>, error |-> [what |-> AssertFailed]]
        ELSE IF checked.threw
        THEN [status |-> "thrown", ledActions |-> set,
              priorityMap |-> checked.priorityMap, ledAction |-> <<>>,
              error |-> checked.error]
        ELSE [status |-> "ok", ledActions |-> emplaceAction(set, built),
              priorityMap |-> checked.priorityMap, ledAction |-> <<built>>,
              error |-> NoError]

memberStep(member, set, pmap) ==
    LET name == value(member, "Name", "")
        action == getAction(value(member, "Action", ""))
        dutyOn == ToUint8(valueInt(member, "DutyOn", DefaultDutyOn))
        period == ToUint16(valueInt(member, "Period", DefaultPeriod))
        priority == getAction(value(member, "Priority", "Blink"))
        checked == validatePriority(name, priority, pmap)
        built == LedAction(name, action, dutyOn, period, priority)
    IN  IF action = AssertFailed \/ priority = AssertFailed
        THEN [status |-> "aborted", ledActions |-> set, priorityMap |-> pmap,
              ledAction |-> <<>>, error |-> [what |-> AssertFailed]]
        ELSE IF checked.threw
        THEN [status |-> "thrown", ledActions |-> set,
              priorityMap |-> checked.priorityMap, ledAction |-> <<>>,
              error |-> checked.error]
        ELSE [status |-> "ok", ledActions |-> emplaceAction(set, built),
              priorityMap |-> checked.priorityMap, ledAction |-> <<built>>,
              error |-> NoError]

(***************************************************************************)
(* The version switch of loadJsonConfig.                                   *)
(***************************************************************************)
versionOf(doc) == valueInt(doc, "version", DefaultVersion)

(***************************************************************************)
(* Position in the document read so far.                                   *)
(***************************************************************************)
ledsRead == value(json, "leds", <<>>)
nGroups == Len(ledsRead)
membersOf(entry) == value(entry, "members", <<>>)

RECURSIVE countMembers(_)
countMembers(leds) ==
    IF leds = <<>> THEN 0
    ELSE Len(membersOf(Head(leds))) + countMembers(Tail(leds))

nMembers == countMembers(ledsRead)

(***************************************************************************)
(* Init: getSystemLedMap has been called with some config path.            *)
(***************************************************************************)
Init ==
    /\ pc = "getSystemLedMap"
    /\ config \in Configs
    /\ json = EmptyJson
    /\ ledMap = EmptyGroupMap
    /\ priorityMap = EmptyPriorityMap
    /\ objpath = ""
    /\ ledActions = {}
    /\ ledAction = <<>>
    /\ returned = <<>>
    /\ error = NoError

\* An exception leaves the call: the locals are left as they were at the throw.
Throw(err) ==
    /\ pc' = "thrown"
    /\ error' = err
    /\ UNCHANGED <<ledMap, priorityMap, objpath, ledActions, ledAction,
                   returned>>

(***************************************************************************)
(* getSystemLedMap: an empty config is looked up by getJsonConfig.         *)
(***************************************************************************)
GetSystemLedMap(found) ==
    /\ pc = "getSystemLedMap"
    /\ IF config = ""
       THEN IF found = ""
            THEN Throw([what |-> NoConfigFound]) /\ UNCHANGED <<config, json>>
            ELSE /\ config' = found
                 /\ pc' = "readJson"
                 /\ UNCHANGED <<json, ledMap, priorityMap, objpath, ledActions,
                                ledAction, returned, error>>
       ELSE /\ pc' = "readJson"
            /\ UNCHANGED <<config, json, ledMap, priorityMap, objpath,
                           ledActions, ledAction, returned, error>>

(***************************************************************************)
(* readJson: the file is missing or empty, malformed, or parses to a       *)
(* document with or without the version and leds fields.                   *)
(***************************************************************************)
ReadJson(file, version, hasLeds) ==
    /\ pc = "readJson"
    /\ IF file \in {"missing", "empty"}
       THEN Throw([what |-> IncorrectFile]) /\ UNCHANGED <<config, json>>
       ELSE IF file = "malformed"
       THEN Throw([what |-> ParseFailed]) /\ UNCHANGED <<config, json>>
       ELSE /\ json' = Field("version", version)
                        @@ (IF hasLeds THEN ("leds" :> <<>>) ELSE EmptyJson)
            /\ pc' = "loadJsonConfig"
            /\ UNCHANGED <<config, ledMap, priorityMap, objpath, ledActions,
                           ledAction, returned, error>>

(***************************************************************************)
(* loadJsonConfig: the switch on the version.                              *)
(***************************************************************************)
LoadJsonConfig ==
    /\ pc = "loadJsonConfig"
    /\ IF versionOf(json) = SupportedVersion
       THEN /\ pc' = "leds"
            /\ ledMap' = EmptyGroupMap
            /\ priorityMap' = EmptyPriorityMap
            /\ UNCHANGED <<config, json, objpath, ledActions, ledAction,
                           returned, error>>
       ELSE /\ Throw([what |-> UnsupportedVersion, VERSION |-> versionOf(json)])
            /\ UNCHANGED <<config, json>>

\* Faulty variant: ledActions is declared outside the loop and never cleared.
BeginEntryNoReset(group, hasMembers) ==
    /\ pc = "leds"
    /\ "leds" \in DOMAIN json
    /\ LET entry == Field("group", group)
                      @@ (IF hasMembers THEN ("members" :> <<>>) ELSE EmptyJson)
       IN  /\ json' = [json EXCEPT !["leds"] = Append(@, entry)]
           /\ objpath' = groupPath(entry)
    /\ pc' = "members"
    /\ UNCHANGED <<config, ledMap, priorityMap, ledActions, ledAction,
                   returned, error>>

\* Faulty variant: priorityMap is declared inside the loop, one map per group.
BeginEntryLocalPriorityMap(group, hasMembers) ==
    /\ pc = "leds"
    /\ "leds" \in DOMAIN json
    /\ LET entry == Field("group", group)
                      @@ (IF hasMembers THEN ("members" :> <<>>) ELSE EmptyJson)
       IN  /\ json' = [json EXCEPT !["leds"] = Append(@, entry)]
           /\ objpath' = groupPath(entry)
    /\ ledActions' = {}
    /\ priorityMap' = EmptyPriorityMap
    /\ pc' = "members"
    /\ UNCHANGED <<config, ledMap, ledAction, returned, error>>

(***************************************************************************)
(* loadJsonConfigV1, outer loop: the next entry of leds.                   *)
(***************************************************************************)
BeginEntry(group, hasMembers) ==
    /\ pc = "leds"
    /\ "leds" \in DOMAIN json
    /\ LET entry == Field("group", group)
                      @@ (IF hasMembers THEN ("members" :> <<>>) ELSE EmptyJson)
       IN  /\ json' = [json EXCEPT !["leds"] = Append(@, entry)]
           /\ objpath' = groupPath(entry)
    /\ ledActions' = {}
    /\ pc' = "members"
    /\ UNCHANGED <<config, ledMap, priorityMap, ledAction, returned, error>>

\* Faulty variant: a failure is caught and the groups built so far are returned.
ProcessMemberBestEffort(member) ==
    /\ pc = "members"
    /\ "members" \in DOMAIN ledsRead[nGroups]
    /\ json' = [json EXCEPT !["leds"][nGroups]["members"] = Append(@, member)]
    /\ LET r == memberStep(member, ledActions, priorityMap)
       IN  /\ pc' = IF r.status = "ok" THEN "members" ELSE r.status
           /\ ledActions' = r.ledActions
           /\ priorityMap' = r.priorityMap
           /\ ledAction' = IF r.status = "ok" THEN r.ledAction ELSE ledAction
           /\ error' = r.error
           /\ returned' = IF r.status = "ok" THEN returned ELSE <<ledMap>>
    /\ UNCHANGED <<config, ledMap, objpath>>

(***************************************************************************)
(* loadJsonConfigV1, inner loop: the next member of the entry.             *)
(***************************************************************************)
ProcessMember(member) ==
    /\ pc = "members"
    /\ "members" \in DOMAIN ledsRead[nGroups]
    /\ json' = [json EXCEPT !["leds"][nGroups]["members"] = Append(@, member)]
    /\ LET r == memberStep(member, ledActions, priorityMap)
       IN  /\ pc' = IF r.status = "ok" THEN "members" ELSE r.status
           /\ ledActions' = r.ledActions
           /\ priorityMap' = r.priorityMap
           /\ ledAction' = IF r.status = "ok" THEN r.ledAction ELSE ledAction
           /\ error' = r.error
    /\ UNCHANGED <<config, ledMap, objpath, returned>>

(***************************************************************************)
(* loadJsonConfigV1: the members are exhausted, the group is inserted.     *)
(***************************************************************************)
EndEntry ==
    /\ pc = "members"
    /\ ledMap' = emplaceGroup(ledMap, objpath, ledActions)
    /\ pc' = "leds"
    /\ UNCHANGED <<config, json, priorityMap, objpath, ledActions, ledAction,
                   returned, error>>

(***************************************************************************)
(* loadJsonConfigV1: the entries are exhausted, the map is returned        *)
(* through loadJsonConfig and getSystemLedMap to the caller.               *)
(***************************************************************************)
Return ==
    /\ pc = "leds"
    /\ returned' = <<ledMap>>
    /\ pc' = "returned"
    /\ UNCHANGED <<config, json, ledMap, priorityMap, objpath, ledActions,
                   ledAction, error>>

Next ==
    \/ \E found \in Configs : GetSystemLedMap(found)
    \/ \E file \in FileStates, version \in Versions, hasLeds \in BOOLEAN :
           ReadJson(file, version, hasLeds)
    \/ LoadJsonConfig
    \/ nGroups < MaxGroups /\
           \E group \in Groups, hasMembers \in {TRUE} :
               BeginEntry(group, hasMembers)
    \/ nMembers < MaxMembers /\ \E member \in Members : ProcessMember(member)
    \/ EndEntry
    \/ Return

Spec == Init /\ [][Next]_vars

NextFields ==
    \/ \E found \in Configs : GetSystemLedMap(found)
    \/ \E file \in FileStates, version \in FieldVersions, hasLeds \in BOOLEAN :
           ReadJson(file, version, hasLeds)
    \/ LoadJsonConfig
    \/ nGroups < MaxGroups /\
           \E group \in FieldGroups, hasMembers \in BOOLEAN :
               BeginEntry(group, hasMembers)
    \/ nMembers < MaxFieldMembers /\
           \E member \in FieldMembers : ProcessMember(member)
    \/ EndEntry
    \/ Return

SpecFields == Init /\ [][NextFields]_vars

(***************************************************************************)
(* loadJsonConfigV1 and loadJsonConfig as functions of a whole document:   *)
(* the two loops, run to their end or to the first failure.                *)
(***************************************************************************)
RECURSIVE membersLoop(_, _, _)
membersLoop(members, set, pmap) ==
    IF members = <<>>
    THEN [status |-> "ok", ledActions |-> set, priorityMap |-> pmap,
          error |-> NoError]
    ELSE LET r == memberStep(Head(members), set, pmap)
         IN  IF r.status = "ok"
             THEN membersLoop(Tail(members), r.ledActions, r.priorityMap)
             ELSE r

RECURSIVE entriesLoop(_, _, _)
entriesLoop(leds, map, pmap) ==
    IF leds = <<>>
    THEN [status |-> "returned", returned |-> <<map>>, error |-> NoError]
    ELSE LET r == membersLoop(membersOf(Head(leds)), {}, pmap)
         IN  IF r.status = "ok"
             THEN entriesLoop(Tail(leds),
                      emplaceGroup(map, groupPath(Head(leds)), r.ledActions),
                      r.priorityMap)
             ELSE [status |-> r.status, returned |-> <<>>, error |-> r.error]

loadJsonConfigV1(doc) ==
    entriesLoop(value(doc, "leds", <<>>), EmptyGroupMap, EmptyPriorityMap)

loadJsonConfig(doc) ==
    IF versionOf(doc) = SupportedVersion
    THEN loadJsonConfigV1(doc)
    ELSE [status |-> "thrown", returned |-> <<>>,
          error |-> [what |-> UnsupportedVersion, VERSION |-> versionOf(doc)]]

(***************************************************************************)
(* The document read so far, as the properties speak of it.                *)
(***************************************************************************)
RECURSIVE flatten(_)
flatten(leds) ==
    IF leds = <<>> THEN <<>>
    ELSE membersOf(Head(leds)) \o flatten(Tail(leds))

docMembers == flatten(ledsRead)
nameOf(m) == value(m, "Name", "")
declaredPriority(m) == value(m, "Priority", "Blink")
validAction(m) == "Action" \in DOMAIN m /\ m["Action"] \in {"On", "Blink"}
validPriority(m) == declaredPriority(m) \in {"On", "Blink"}
allValid(ms) == \A i \in 1..Len(ms) : validAction(ms[i]) /\ validPriority(ms[i])
AllValid == allValid(docMembers)

\* The LED names the members ms give two different priorities.
conflicts(ms) ==
    {nameOf(ms[j]) : j \in
        {k \in 1..Len(ms) : \E i \in 1..(k - 1) :
            /\ nameOf(ms[i]) = nameOf(ms[k])
            /\ declaredPriority(ms[i]) # declaredPriority(ms[k])}}
Conflicts == conflicts(docMembers)

Failed == pc \in {"thrown", "aborted"}
Parsed == /\ pc \notin {"getSystemLedMap", "readJson"}
          /\ error.what \notin {NoConfigFound, IncorrectFile, ParseFailed}
EnteredV1 == Parsed /\ pc # "loadJsonConfig" /\ error.what # UnsupportedVersion

\* The member a ProcessMember step has just read.
lastEntry(doc) == doc["leds"][Len(doc["leds"])]
lastMember(doc) == membersOf(lastEntry(doc))[Len(membersOf(lastEntry(doc)))]
ReadsMember == pc = "members" /\ json' # json

(***************************************************************************)
(* C1: in a version-1 document whose Action and Priority strings are all   *)
(* valid, the load fails with the priority-conflict error, raised for an   *)
(* LED name that has two different priorities, as soon as some LED name    *)
(* has been read with two different declared priorities, however many      *)
(* groups or members lie between the two; while no LED name has two        *)
(* different priorities the load does not fail, and it returns.            *)
(***************************************************************************)
C1_PriorityConflict ==
    LET ms == docMembers
        twice == conflicts(ms)
    IN  (EnteredV1 /\ allValid(ms)) =>
            IF twice = {}
            THEN /\ ~Failed
                 /\ pc = "returned" => returned # <<>>
            ELSE /\ pc = "thrown"
                 /\ error.what = PriorityMismatch
                 /\ error.NAME \in twice
                 /\ error.NAME = nameOf(ms[Len(ms)])
                 /\ returned = <<>>

\* A conflict between the first member of the first group and the last
\* member of the second group, with a member of another name between them.
C1_Witness ==
    /\ pc = "thrown" /\ error.what = PriorityMismatch
    /\ AllValid
    /\ nGroups = 2 /\ Len(docMembers) = 3
    /\ Len(membersOf(ledsRead[1])) = 2
    /\ nameOf(docMembers[1]) = nameOf(docMembers[3])
    /\ nameOf(docMembers[2]) # nameOf(docMembers[1])
    /\ error.NAME = nameOf(docMembers[3])

(***************************************************************************)
(* C2.  The group entries of the document that produce a given path.       *)
(***************************************************************************)
entriesAt(path) == {i \in 1..nGroups : groupPath(ledsRead[i]) = path}
firstAt(path) == CHOOSE i \in entriesAt(path) : \A j \in entriesAt(path) : i <= j
lastAt(path) == CHOOSE i \in entriesAt(path) : \A j \in entriesAt(path) : j <= i
docPaths == {groupPath(ledsRead[i]) : i \in 1..nGroups}
builtFrom(i) == membersLoop(membersOf(ledsRead[i]), {}, EmptyPriorityMap).ledActions

\* C2 as claimed: the returned GroupMap holds one entry per path of the
\* document, and its ActionSet is the one built from the LATER entry of
\* that path.
C2_LaterOverwrites ==
    pc = "returned" =>
        /\ DOMAIN returned[1] = docPaths
        /\ \A path \in docPaths : returned[1][path] = builtFrom(lastAt(path))

\* C2 as amended: the returned GroupMap holds one entry per path of the
\* document, and its ActionSet is the one built from the FIRST entry of
\* that path; the members of the later entries are dropped.
C2_FirstKept ==
    pc = "returned" =>
        /\ DOMAIN returned[1] = docPaths
        /\ \A path \in docPaths : returned[1][path] = builtFrom(firstAt(path))

\* Two entries of one path with different members, the load returned.
C2_Witness ==
    /\ pc = "returned"
    /\ nGroups = 2
    /\ groupPath(ledsRead[1]) = groupPath(ledsRead[2])
    /\ Len(membersOf(ledsRead[1])) = 1
    /\ Len(membersOf(ledsRead[2])) = 2
    /\ Cardinality(returned[1][groupPath(ledsRead[1])]) = 1

(***************************************************************************)
(* C3: a parsed document whose version field is a value other than 1      *)
(* fails with the unsupported-version error and no group is built; a       *)
(* GroupMap is returned only for version 1 or no version field; and a      *)
(* document with no version field ends exactly as the same document with   *)
(* version 1 does.                                                         *)
(***************************************************************************)
C3_VersionGate ==
    (Parsed /\ pc # "loadJsonConfig") =>
        /\ ("version" \in DOMAIN json /\ json["version"] # Small(1)) =>
              /\ pc = "thrown"
              /\ error.what = UnsupportedVersion
              /\ returned = <<>>
              /\ ledMap = EmptyGroupMap /\ ledActions = {} /\ nGroups = 0
        /\ returned # <<>> =>
              ("version" \notin DOMAIN json \/ json["version"] = Small(1))
        /\ ("version" \notin DOMAIN json /\ (Failed \/ pc = "returned")) =>
              LET r == loadJsonConfig(json @@ ("version" :> Small(1)))
              IN  /\ pc = r.status
                  /\ returned = r.returned
                  /\ error = r.error

(***************************************************************************)
(* C4: a load is all-or-nothing.  Whenever the load has failed (a thrown   *)
(* exception or the abort of the assertion), the caller has received no    *)
(* GroupMap, whatever groups and members were processed before; a GroupMap *)
(* is received only from a load that ended without error, and it is the    *)
(* whole map.                                                              *)
(***************************************************************************)
C4_AllOrNothing ==
    /\ Failed => returned = <<>>
    /\ error # NoError => (Failed /\ returned = <<>>)
    /\ returned # <<>> => (pc = "returned" /\ error = NoError
                            /\ returned = <<ledMap>>)

\* A priority conflict in the second group, after one group was inserted
\* and a member of the second group was processed.
C4_Witness ==
    /\ pc = "thrown" /\ error.what = PriorityMismatch
    /\ nGroups = 2
    /\ DOMAIN ledMap # {} /\ \E path \in DOMAIN ledMap : ledMap[path] # {}
    /\ ledActions # {}
    /\ returned = <<>>

(***************************************************************************)
(* C5: the record built for a member that has a valid Action and omits     *)
(* DutyOn, Period and Priority has dutyOn 50, period 0 and priority Blink, *)
(* whatever was read before it.  (No record is built when the load fails   *)
(* at that member.)                                                        *)
(***************************************************************************)
C5_Defaults ==
    (pc = "members" /\ membersOf(ledsRead[nGroups]) # <<>>) =>
        LET m == lastMember(json)
        IN  (validAction(m) /\ DOMAIN m \cap {"DutyOn", "Period", "Priority"} = {})
            => /\ ledAction # <<>>
               /\ ledAction[1].name = nameOf(m)
               /\ ledAction[1].action = (IF m["Action"] = "On" THEN On ELSE Blink)
               /\ ledAction[1].dutyOn = 50
               /\ ledAction[1].period = 0
               /\ ledAction[1].priority = Blink

\* The third member of the document, in the second group, omits the three
\* fields and its record has been built.
C5_Witness ==
    /\ pc = "members"
    /\ nGroups = 2 /\ Len(docMembers) = 3
    /\ membersOf(ledsRead[nGroups]) # <<>>
    /\ validAction(lastMember(json))
    /\ DOMAIN lastMember(json) \cap {"DutyOn", "Period", "Priority"} = {}
    /\ ledAction # <<>> /\ ledAction[1].dutyOn = 50 /\ ledAction[1].priority = Blink

(***************************************************************************)
(* C6: a load that returns for a document of N group entries with pairwise *)
(* distinct paths and LED names unique within each group returns a map of  *)
(* exactly N keys in which each group's set has as many records as the     *)
(* entry has members; a document with no leds field does not fail and      *)
(* returns the empty map.                                                  *)
(***************************************************************************)
distinctPaths ==
    \A i, j \in 1..nGroups : i # j => groupPath(ledsRead[i]) # groupPath(ledsRead[j])
uniqueNames ==
    \A g \in 1..nGroups : \A i, j \in 1..Len(membersOf(ledsRead[g])) :
        i # j => nameOf(membersOf(ledsRead[g])[i]) # nameOf(membersOf(ledsRead[g])[j])

C6_Sizes ==
    /\ (pc = "returned" /\ distinctPaths /\ uniqueNames) =>
          /\ Cardinality(DOMAIN returned[1]) = nGroups
          /\ \A g \in 1..nGroups :
                Cardinality(returned[1][groupPath(ledsRead[g])])
                    = Len(membersOf(ledsRead[g]))
    /\ (EnteredV1 /\ "leds" \notin DOMAIN json) =>
          /\ ~Failed
          /\ pc = "returned" => returned = <<EmptyGroupMap>>

\* Two groups of distinct paths, of two members and one member.
C6_Witness ==
    /\ pc = "returned" /\ distinctPaths /\ uniqueNames
    /\ nGroups = 2
    /\ Len(membersOf(ledsRead[1])) = 2 /\ Len(membersOf(ledsRead[2])) = 1
    /\ Cardinality(DOMAIN returned[1]) = 2

(***************************************************************************)
(* C7: the step that processes a member changes the PriorityMap only when  *)
(* validatePriority is reached with a name absent from it, and then it     *)
(* adds exactly (name, priority); with a name present the map is unchanged *)
(* and the step succeeds when the priority is equal and fails when it      *)
(* differs.  Hence the priority recorded for a name is always the one of   *)
(* the first member of that name.                                          *)
(***************************************************************************)
decoded(p) == IF p = "Blink" THEN Blink ELSE On

C7_Step ==
    ReadsMember =>
        LET m == lastMember(json')
            name == nameOf(m)
            prio == decoded(declaredPriority(m))
        IN  IF ~(validAction(m) /\ validPriority(m))
            THEN priorityMap' = priorityMap
            ELSE IF name \notin DOMAIN priorityMap
            THEN /\ DOMAIN priorityMap' = DOMAIN priorityMap \cup {name}
                 /\ priorityMap'[name] = prio
                 /\ \A n \in DOMAIN priorityMap : priorityMap'[n] = priorityMap[n]
                 /\ pc' = "members"
            ELSE /\ priorityMap' = priorityMap
                 /\ priorityMap[name] = prio => pc' = "members"
                 /\ priorityMap[name] # prio => pc' = "thrown"

firstNamed(ms, n) ==
    CHOOSE i \in 1..Len(ms) :
        /\ nameOf(ms[i]) = n
        /\ \A j \in 1..(i - 1) : nameOf(ms[j]) # n

C7_FirstCall ==
    LET ms == docMembers
    IN  \A n \in DOMAIN priorityMap :
            /\ \E i \in 1..Len(ms) : nameOf(ms[i]) = n
            /\ priorityMap[n] = decoded(declaredPriority(ms[firstNamed(ms, n)]))

C7_PriorityMapFrame == [][C7_Step]_vars /\ []C7_FirstCall

\* A name is present with one priority and a member of that name has just
\* been read with the other: the load failed and the map kept the first.
C7_Witness ==
    /\ pc = "thrown" /\ error.what = PriorityMismatch
    /\ error.NAME \in DOMAIN priorityMap
    /\ priorityMap[error.NAME] = error.OLD_PRIO
    /\ error.OLD_PRIO # error.NEW_PRIO
    /\ Cardinality(DOMAIN priorityMap) = 2

(***************************************************************************)
(* C8: a member whose Action is absent, empty or any string other than     *)
(* "On" or "Blink", or whose Priority is present with such a value, stops  *)
(* the load at the assertion of getAction: no record is built for it, no   *)
(* group is inserted and nothing is returned.                              *)
(***************************************************************************)
C8_Step ==
    (ReadsMember /\ ~(validAction(lastMember(json')) /\ validPriority(lastMember(json'))))
        => /\ pc' = "aborted"
           /\ error'.what = AssertFailed
           /\ ledAction' = ledAction
           /\ ledActions' = ledActions
           /\ ledMap' = ledMap
           /\ returned' = <<>>

C8_Rejected ==
    LET ms == docMembers
    IN  \A i \in 1..Len(ms) :
            ~(validAction(ms[i]) /\ validPriority(ms[i]))
                => /\ i = Len(ms)
                   /\ pc = "aborted"
                   /\ returned = <<>>

C8_InvalidActionRejected == [][C8_Step]_vars /\ []C8_Rejected

\* The member read has no Action field and a valid Priority.
C8_Witness ==
    /\ pc = "aborted"
    /\ "Action" \notin DOMAIN lastMember(json)
    /\ validPriority(lastMember(json))
    /\ ledActions = {} /\ returned = <<>>

(***************************************************************************)
(* C9: DutyOn and Period are never rejected: a member with valid strings   *)
(* and no priority conflict is processed whatever its DutyOn and Period,   *)
(* and its record has dutyOn = DutyOn mod 256 and period = Period mod      *)
(* 65536.                                                                  *)
(***************************************************************************)
C9_Wraps ==
    /\ (EnteredV1 /\ AllValid /\ Conflicts = {}) => ~Failed
    /\ (pc = "members" /\ membersOf(ledsRead[nGroups]) # <<>>) =>
          LET m == lastMember(json)
          IN  /\ ledAction # <<>>
              /\ "DutyOn" \in DOMAIN m => ledAction[1].dutyOn = m["DutyOn"].lo % 256
              /\ "Period" \in DOMAIN m => ledAction[1].period = m["Period"].lo % 65536
              /\ ledAction[1].dutyOn \in 0..255
              /\ ledAction[1].period \in 0..65535

\* DutyOn 300 became 44 and Period 70000 became 4464.
C9_Witness ==
    /\ pc = "members" /\ membersOf(ledsRead[nGroups]) # <<>>
    /\ "DutyOn" \in DOMAIN lastMember(json)
    /\ lastMember(json)["DutyOn"] = Small(300)
    /\ "Period" \in DOMAIN lastMember(json)
    /\ lastMember(json)["Period"] = Small(70000)
    /\ ledAction # <<>>
    /\ ledAction[1].dutyOn = 44 /\ ledAction[1].period = 4464

(***************************************************************************)
(* C10: in every GroupMap returned, any two records of the same LED name   *)
(* carry the same priority, in one group or in two, also for colliding     *)
(* paths and for members that omit Name.  More: every record built, kept   *)
(* in a set or not, carries the one priority the PriorityMap holds for its *)
(* name, so two records built from two members of one group agree too.     *)
(***************************************************************************)
recordsBuilt ==
    UNION {ledMap[p] : p \in DOMAIN ledMap} \cup ledActions
        \cup {ledAction[i] : i \in 1..Len(ledAction)}

C10_OnePriorityPerLed ==
    /\ pc = "returned" =>
          \A p, q \in DOMAIN returned[1] :
              \A a \in returned[1][p], b \in returned[1][q] :
                  a.name = b.name => a.priority = b.priority
    /\ \A a \in recordsBuilt :
          a.name \in DOMAIN priorityMap /\ a.priority = priorityMap[a.name]

\* Two groups each hold a record of a member that omits Name.
C10_Witness ==
    /\ pc = "returned"
    /\ Cardinality(DOMAIN returned[1]) = 2
    /\ \A p \in DOMAIN returned[1] : \E a \in returned[1][p] : a.name = ""
    /\ \A i \in 1..Len(docMembers) : "Name" \notin DOMAIN docMembers[i]
    /\ Len(docMembers) = 3

====
